---------------------------- MODULE Spec2Model ----------------------------
(***************************************************************************)
(* SuiteWaste OS edge worker: the session gate, the role gate and the     *)
(* route handlers of worker/user-routes.ts over the entity store.         *)
(*                                                                         *)
(* One step of the model is one HTTP request answered whole: the auth     *)
(* middleware, the role gate of the route and the handler, with every     *)
(* store write the handler makes.  `last` holds the request of the step   *)
(* and the response the caller received.  The EPR report is also modelled *)
(* step by step (gate, page reads, join) for the runs in which other      *)
(* requests are served while a report awaits its reads.                   *)
(*                                                                         *)
(* Strings the code takes apart (paths, material types) are sequences:    *)
(* a path is the sequence of the chunks of its text, a material type the  *)
(* sequence of its characters.  Session tokens (crypto.randomUUID) are    *)
(* the integers 1, 2, ... in the order they are minted; token 0 is a      *)
(* string that was never minted.  Weights and fees are counted in tenths  *)
(* (12.5 kg is 125, a fee of 4.0 is 40).                                  *)
(***************************************************************************)
EXTENDS Integers, Sequences, FiniteSets, TLC

VARIABLES
    users,          \* UserEntity: id -> user record
    sessions,       \* SessionEntity: token -> session record
    nextTok,        \* session tokens minted so far
    suppliers,      \* SupplierEntity: id -> supplier
    ledger,         \* InventoryLedgerEntity: id -> ledger entry
    transactions,   \* TransactionEntity: id -> transaction
    nextId,         \* record ids minted so far (crypto.randomUUID)
    seedings,       \* history: /auth/init calls answered seeded: true
    last,           \* the request of the last step and its response
    mat,            \* classifier run: the material type
    stream,         \* classifier run: the label returned ("" before the call)
    inflight,       \* a report request between its gate and its response:
                    \* the page reads that have completed
    client          \* the browser: useAuthStore, localStorage, location

vars == <<users, sessions, nextTok, suppliers, ledger, transactions, nextId,
          seedings, last, mat, stream, inflight, client>>

\* the entity store
store == <<users, sessions, suppliers, ledger, transactions>>

\* what the auth routes leave alone
dataVars == <<suppliers, ledger, transactions, nextId, mat, stream, inflight, client>>

(***************************************************************************)
(* Bounds of the model.                                                    *)
(***************************************************************************)
\* logins that mint a session token in one run
MaxTokens == 2

\* the same in the runs that change roles
MaxRoleTokens == 1

\* suppliers created in a run that changes roles
MaxSuppliers == 1

\* the page of the bulk session clear in the scaled run: MaxTokens sessions
\* against a page of PagedClearLimit stand for more than 1000 sessions
\* against the page of 1000
PagedClearLimit == 1

\* ledger entries and transactions created in a report run
MaxRecords == 3

\* pieces a classified material type is made of
MaxPieces == 2

(***************************************************************************)
(* Requests.                                                               *)
(***************************************************************************)
PAuthInit == <<"/api", "/auth", "/init">>
PAuthLogin == <<"/api", "/auth", "/login">>
PHealth == <<"/api", "/health">>
PAuthLogout == <<"/api", "/auth", "/logout">>
PAuthMe == <<"/api", "/auth", "/me">>
PSessionsClear == <<"/api", "/admin", "/sessions", "/clear">>
PDashboard == <<"/api", "/dashboard">>
PEprReport == <<"/api", "/epr-report">>
PConfigUsers == <<"/api", "/config", "/users">>
PSuppliers == <<"/api", "/suppliers">>
PLedger == <<"/api", "/ledger">>
PTransactions == <<"/api", "/transactions">>
PSyncLedger == <<"/api", "/sync", "/ledger">>
PSyncTransactions == <<"/api", "/sync", "/transactions">>
PCameraSnapshot == <<"/api", "/camera", "/snapshot">>

\* String.prototype.startsWith on chunked paths
StartsWith(path, p) ==
    /\ Len(p) <= Len(path)
    /\ SubSeq(path, 1, Len(p)) = p

\* the Authorization header as authHeader.split(' ') sees it: the scheme
\* word and the word after the first space
NoHeader == [scheme |-> "", token |-> 0]

Bearer(t) == [scheme |-> "Bearer", token |-> t]

Headers ==
    {NoHeader, [scheme |-> "Basic", token |-> 1]} \cup {Bearer(t) : t \in 0..MaxTokens}

\* headers sent to the routes the middleware lets through unread
ExemptHeaders == {NoHeader, Bearer(1)}

\* a JSON field that is absent (or empty: both are falsy)
Missing == ""

Usernames == {Missing, "admin", "op", "zed"}

Passwords == {Missing, "pwA", "pwO"}

(***************************************************************************)
(* The entity store (worker/entities.ts, worker/core-utils.ts).            *)
(***************************************************************************)
Roles == {"operator", "manager", "admin", "auditor"}

\* the state an entity that was never created reads as
NoUser == [id |-> "", username |-> "", password_hash |-> "", role |-> "operator", active |-> FALSE]

NoSession == [id |-> "", userId |-> "", createdAt |-> 0]

\* UserEntity.ensureSeed: the default user set
SeedUsers ==
    [i \in {"u1", "u2"} |->
        IF i = "u1"
        THEN [id |-> "u1", username |-> "admin", password_hash |-> "pwA", role |-> "admin", active |-> TRUE]
        ELSE [id |-> "u2", username |-> "op", password_hash |-> "pwO", role |-> "operator", active |-> TRUE]]

\* UserEntity.ensureSeed(env): writes the seed when the collection is empty
EnsureSeed(coll) == IF DOMAIN coll = {} THEN SeedUsers ELSE coll

\* new Entity(env, id).getState()
GetUser(id) == IF id \in DOMAIN users THEN users[id] ELSE NoUser

GetSession(token) == IF token \in DOMAIN sessions THEN sessions[token] ELSE NoSession

\* Entity.list(env, null, limit): the pages a read of at most `limit`
\* records of collection `coll` (a function id -> record) can return
ListPages(coll, limit) ==
    IF Cardinality(DOMAIN coll) <= limit
    THEN {DOMAIN coll}
    ELSE {p \in SUBSET DOMAIN coll : Cardinality(p) = limit}

Restrict(f, S) == [x \in S |-> f[x]]

Extend(f, k, v) == [x \in DOMAIN f \cup {k} |-> IF x = k THEN v ELSE f[x]]

\* Entity.create(env, record)
Create(coll, record) == Extend(coll, record.id, record)

\* Entity.delete(env, id): the collection after the delete
Delete(coll, id) == Restrict(coll, DOMAIN coll \ {id})

\* Entity.deleteMany(env, ids): the collection after the deletes
DeleteMany(coll, ids) == Restrict(coll, DOMAIN coll \ ids)

\* the records of a page
Items(coll, page) == {coll[i] : i \in page}

\* the page sizes the handlers ask for
UserInitLimit == 1

UserLoginLimit == 100

SessionClearLimit == 1000

(***************************************************************************)
(* Responses.                                                              *)
(***************************************************************************)
NoBody == [none |-> TRUE]

NoReq == [none |-> TRUE]

\* no report request is in progress
NoReport ==
    [started |-> FALSE, hdr |-> NoHeader, done |-> {},
     suppliers |-> {}, ledger |-> {}, transactions |-> {}]

\* the request of a step and the response the caller received
Resp(method, path, hdr, req, status, body) ==
    [method |-> method, path |-> path, hdr |-> hdr, req |-> req,
     status |-> status, body |-> body]

(***************************************************************************)
(* The EPR stream classifier.  A material type is the sequence of its      *)
(* characters.                                                             *)
(***************************************************************************)
UpperCase == <<"A", "B", "C", "D", "E", "F", "G", "H", "I", "J", "K", "L", "M", "N", "O", "P", "Q", "R", "S", "T", "U", "V", "W", "X", "Y", "Z">>

LowerCase == <<"a", "b", "c", "d", "e", "f", "g", "h", "i", "j", "k", "l", "m", "n", "o", "p", "q", "r", "s", "t", "u", "v", "w", "x", "y", "z">>

LowerChar(c) ==
    IF \E i \in DOMAIN UpperCase : UpperCase[i] = c
    THEN LowerCase[CHOOSE i \in DOMAIN UpperCase : UpperCase[i] = c]
    ELSE c

\* String.prototype.toLowerCase
ToLowerCase(str) == [i \in 1..Len(str) |-> LowerChar(str[i])]

\* String.prototype.includes
Includes(str, kw) ==
    \E i \in 1..(Len(str) - Len(kw) + 1) : SubSeq(str, i, i + Len(kw) - 1) = kw

KwPlastic == <<"p", "l", "a", "s", "t", "i", "c">>

KwPet == <<"p", "e", "t">>

KwPaper == <<"p", "a", "p", "e", "r">>

KwCardboard == <<"c", "a", "r", "d", "b", "o", "a", "r", "d">>

KwGlass == <<"g", "l", "a", "s", "s">>

KwCopper == <<"c", "o", "p", "p", "e", "r">>

KwAluminum == <<"a", "l", "u", "m", "i", "n", "u", "m">>

KwSteel == <<"s", "t", "e", "e", "l">>

KwMetal == <<"m", "e", "t", "a", "l">>

KwElectronic == <<"e", "l", "e", "c", "t", "r", "o", "n", "i", "c">>

KwWeee == <<"w", "e", "e", "e">>

KwBattery == <<"b", "a", "t", "t", "e", "r", "y">>

\* the classifier testing glass before plastic
getEprStreamGlassFirst(materialType) ==
    LET lowerMat == ToLowerCase(materialType) IN
    IF Includes(lowerMat, KwGlass) THEN "Glass"
    ELSE IF Includes(lowerMat, KwPlastic) \/ Includes(lowerMat, KwPet) THEN "Plastic"
    ELSE IF Includes(lowerMat, KwPaper) \/ Includes(lowerMat, KwCardboard)
    THEN "Paper & Packaging"
    ELSE IF \/ Includes(lowerMat, KwCopper) \/ Includes(lowerMat, KwAluminum)
            \/ Includes(lowerMat, KwSteel) \/ Includes(lowerMat, KwMetal)
    THEN "Metals"
    ELSE IF \/ Includes(lowerMat, KwElectronic) \/ Includes(lowerMat, KwWeee)
            \/ Includes(lowerMat, KwBattery)
    THEN "Electrical & Electronic"
    ELSE "Other"

getEprStream(materialType) ==
    LET lowerMat == ToLowerCase(materialType) IN
    IF Includes(lowerMat, KwPlastic) \/ Includes(lowerMat, KwPet) THEN "Plastic"
    ELSE IF Includes(lowerMat, KwPaper) \/ Includes(lowerMat, KwCardboard)
    THEN "Paper & Packaging"
    ELSE IF Includes(lowerMat, KwGlass) THEN "Glass"
    ELSE IF \/ Includes(lowerMat, KwCopper) \/ Includes(lowerMat, KwAluminum)
            \/ Includes(lowerMat, KwSteel) \/ Includes(lowerMat, KwMetal)
    THEN "Metals"
    ELSE IF \/ Includes(lowerMat, KwElectronic) \/ Includes(lowerMat, KwWeee)
            \/ Includes(lowerMat, KwBattery)
    THEN "Electrical & Electronic"
    ELSE "Other"

\* material types of the ledger entries of the model
CopperWire == <<"C", "o", "p", "p", "e", "r", " ", "w", "i", "r", "e">>

PetBottles == <<"P", "E", "T", " ", "b", "o", "t", "t", "l", "e", "s">>

UnknownDebris == <<"u", "n", "k", "n", "o", "w", "n", " ", "d", "e", "b", "r", "i", "s">>

PlasticGlassLaminate == <<"p", "l", "a", "s", "t", "i", "c", "-", "g", "l", "a", "s", "s", " ", "l", "a", "m", "i", "n", "a", "t", "e">>

(***************************************************************************)
(* The auth middleware and the role gate.                                  *)
(***************************************************************************)
ExemptPaths == {PAuthInit, PAuthLogin, PHealth}

\* the middleware without the check of the active flag
AuthMiddlewareIgnoresActive(path, hdr) ==
    IF \E p \in ExemptPaths : StartsWith(path, p)
    THEN [status |-> 200, hasUser |-> FALSE, user |-> NoUser, sessionId |-> 0]
    ELSE IF hdr.scheme # "Bearer"
    THEN [status |-> 401, hasUser |-> FALSE, user |-> NoUser, sessionId |-> 0]
    ELSE LET session == GetSession(hdr.token)
             user == GetUser(session.userId)
         IN  IF session.userId = ""
             THEN [status |-> 401, hasUser |-> FALSE, user |-> NoUser, sessionId |-> 0]
             ELSE IF user.id = ""
             THEN [status |-> 401, hasUser |-> FALSE, user |-> NoUser, sessionId |-> 0]
             ELSE [status |-> 200, hasUser |-> TRUE, user |-> user, sessionId |-> hdr.token]

\* the middleware judging a session against the user record as it was when
\* the session was created (the seeded record), not as the store holds it
AuthMiddlewareStaleUser(path, hdr) ==
    IF \E p \in ExemptPaths : StartsWith(path, p)
    THEN [status |-> 200, hasUser |-> FALSE, user |-> NoUser, sessionId |-> 0]
    ELSE IF hdr.scheme # "Bearer"
    THEN [status |-> 401, hasUser |-> FALSE, user |-> NoUser, sessionId |-> 0]
    ELSE LET session == GetSession(hdr.token)
             user == IF session.userId \in DOMAIN SeedUsers
                     THEN SeedUsers[session.userId] ELSE NoUser
         IN  IF session.userId = ""
             THEN [status |-> 401, hasUser |-> FALSE, user |-> NoUser, sessionId |-> 0]
             ELSE IF user.id = "" \/ ~user.active
             THEN [status |-> 401, hasUser |-> FALSE, user |-> NoUser, sessionId |-> 0]
             ELSE [status |-> 200, hasUser |-> TRUE, user |-> user, sessionId |-> hdr.token]

\* app.use('/api/*', ...): the status thrown (200: next() is called) and the
\* user and session id set on the context
AuthMiddleware(path, hdr) ==
    IF \E p \in ExemptPaths : StartsWith(path, p)
    THEN [status |-> 200, hasUser |-> FALSE, user |-> NoUser, sessionId |-> 0]
    ELSE IF hdr.scheme # "Bearer"
    THEN [status |-> 401, hasUser |-> FALSE, user |-> NoUser, sessionId |-> 0]
    ELSE LET session == GetSession(hdr.token)
             user == GetUser(session.userId)
         IN  IF session.userId = ""
             THEN [status |-> 401, hasUser |-> FALSE, user |-> NoUser, sessionId |-> 0]
             ELSE IF user.id = "" \/ ~user.active
             THEN [status |-> 401, hasUser |-> FALSE, user |-> NoUser, sessionId |-> 0]
             ELSE [status |-> 200, hasUser |-> TRUE, user |-> user, sessionId |-> hdr.token]

\* the role gate throwing unauthorized() for a role outside the list
RequireRoleThrowsUnauthorized(roles, ctx) ==
    IF ctx.status # 200 THEN ctx.status
    ELSE IF ~ctx.hasUser \/ ctx.user.role \notin roles THEN 401
    ELSE 200

\* requireRole(roles): the status after the middleware and the role gate
RequireRole(roles, ctx) ==
    IF ctx.status # 200 THEN ctx.status
    ELSE IF ~ctx.hasUser \/ ctx.user.role \notin roles THEN 403
    ELSE 200

\* { password_hash, ...safeUser }
SafeUser(u) == [id |-> u.id, username |-> u.username, role |-> u.role, active |-> u.active]

(***************************************************************************)
(* Auth routes.                                                            *)
(***************************************************************************)
\* the seed check answering seeded: true on every call
AuthInitAlwaysSeeds(hdr) ==
    LET ctx == AuthMiddleware(PAuthInit, hdr) IN
    /\ ctx.status = 200
    /\ users' = EnsureSeed(users)
    /\ seedings' = seedings + 1
    /\ last' = Resp("GET", PAuthInit, hdr, NoReq, 200, [seeded |-> TRUE])
    /\ UNCHANGED <<sessions, nextTok, dataVars>>

\* GET /api/auth/init
AuthInit(hdr) ==
    LET ctx == AuthMiddleware(PAuthInit, hdr) IN
    /\ ctx.status = 200
    /\ \E page \in ListPages(users, UserInitLimit) :
          IF page = {}
          THEN /\ users' = EnsureSeed(users)
               /\ seedings' = seedings + 1
               /\ last' = Resp("GET", PAuthInit, hdr, NoReq, 200, [seeded |-> TRUE])
          ELSE /\ UNCHANGED <<users, seedings>>
               /\ last' = Resp("GET", PAuthInit, hdr, NoReq, 200, [seeded |-> FALSE])
    /\ UNCHANGED <<sessions, nextTok, dataVars>>

\* the login comparing the username only
AuthLoginAnyPassword(hdr, username, password, cap) ==
    LET ctx == AuthMiddleware(PAuthLogin, hdr)
        req == [username |-> username, password |-> password]
    IN
    /\ ctx.status = 200
    /\ IF username = Missing \/ password = Missing
       THEN /\ last' = Resp("POST", PAuthLogin, hdr, req, 400,
                            [message |-> "Username and password required"])
            /\ UNCHANGED <<sessions, nextTok>>
       ELSE \E page \in ListPages(users, UserLoginLimit) :
            LET found == {i \in page : users[i].username = username}
            IN  IF found = {}
                THEN /\ last' = Resp("POST", PAuthLogin, hdr, req, 400,
                                     [message |-> "Invalid credentials"])
                     /\ UNCHANGED <<sessions, nextTok>>
                ELSE \E i \in found :
                     IF ~users[i].active
                     THEN /\ last' = Resp("POST", PAuthLogin, hdr, req, 400,
                                          [message |-> "Invalid credentials"])
                          /\ UNCHANGED <<sessions, nextTok>>
                     ELSE /\ nextTok < cap
                          /\ nextTok' = nextTok + 1
                          /\ sessions' = Create(sessions,
                                 [id |-> nextTok + 1, userId |-> users[i].id,
                                  createdAt |-> nextTok + 1])
                          /\ last' = Resp("POST", PAuthLogin, hdr, req, 200,
                                 [user |-> SafeUser(users[i]), token |-> nextTok + 1])
    /\ UNCHANGED <<users, seedings, dataVars>>

\* the login without the check of the active flag
AuthLoginInactiveToo(hdr, username, password, cap) ==
    LET ctx == AuthMiddleware(PAuthLogin, hdr)
        req == [username |-> username, password |-> password]
    IN
    /\ ctx.status = 200
    /\ IF username = Missing \/ password = Missing
       THEN /\ last' = Resp("POST", PAuthLogin, hdr, req, 400,
                            [message |-> "Username and password required"])
            /\ UNCHANGED <<sessions, nextTok>>
       ELSE \E page \in ListPages(users, UserLoginLimit) :
            LET found == {i \in page : /\ users[i].username = username
                                       /\ users[i].password_hash = password}
            IN  IF found = {}
                THEN /\ last' = Resp("POST", PAuthLogin, hdr, req, 400,
                                     [message |-> "Invalid credentials"])
                     /\ UNCHANGED <<sessions, nextTok>>
                ELSE \E i \in found :
                     IF FALSE
                     THEN /\ last' = Resp("POST", PAuthLogin, hdr, req, 400,
                                          [message |-> "Invalid credentials"])
                          /\ UNCHANGED <<sessions, nextTok>>
                     ELSE /\ nextTok < cap
                          /\ nextTok' = nextTok + 1
                          /\ sessions' = Create(sessions,
                                 [id |-> nextTok + 1, userId |-> users[i].id,
                                  createdAt |-> nextTok + 1])
                          /\ last' = Resp("POST", PAuthLogin, hdr, req, 200,
                                 [user |-> SafeUser(users[i]), token |-> nextTok + 1])
    /\ UNCHANGED <<users, seedings, dataVars>>

\* POST /api/auth/login
AuthLogin(hdr, username, password, cap) ==
    LET ctx == AuthMiddleware(PAuthLogin, hdr)
        req == [username |-> username, password |-> password]
    IN
    /\ ctx.status = 200
    /\ IF username = Missing \/ password = Missing
       THEN /\ last' = Resp("POST", PAuthLogin, hdr, req, 400,
                            [message |-> "Username and password required"])
            /\ UNCHANGED <<sessions, nextTok>>
       ELSE \E page \in ListPages(users, UserLoginLimit) :
            LET found == {i \in page : /\ users[i].username = username
                                       /\ users[i].password_hash = password}
            IN  IF found = {}
                THEN /\ last' = Resp("POST", PAuthLogin, hdr, req, 400,
                                     [message |-> "Invalid credentials"])
                     /\ UNCHANGED <<sessions, nextTok>>
                ELSE \E i \in found :
                     IF ~users[i].active
                     THEN /\ last' = Resp("POST", PAuthLogin, hdr, req, 400,
                                          [message |-> "Invalid credentials"])
                          /\ UNCHANGED <<sessions, nextTok>>
                     ELSE /\ nextTok < cap
                          /\ nextTok' = nextTok + 1
                          /\ sessions' = Create(sessions,
                                 [id |-> nextTok + 1, userId |-> users[i].id,
                                  createdAt |-> nextTok + 1])
                          /\ last' = Resp("POST", PAuthLogin, hdr, req, 200,
                                 [user |-> SafeUser(users[i]), token |-> nextTok + 1])
    /\ UNCHANGED <<users, seedings, dataVars>>

\* the logout answering success without deleting the session
AuthLogoutKeepsSession(hdr) ==
    LET ctx == AuthMiddleware(PAuthLogout, hdr) IN
    /\ IF ctx.status # 200
       THEN last' = Resp("POST", PAuthLogout, hdr, NoReq, ctx.status, NoBody)
       ELSE last' = Resp("POST", PAuthLogout, hdr, NoReq, 200, [success |-> TRUE])
    /\ UNCHANGED <<users, sessions, nextTok, seedings, dataVars>>

\* the logout deleting every session of the caller's user
AuthLogoutAllOfUser(hdr) ==
    LET ctx == AuthMiddleware(PAuthLogout, hdr) IN
    /\ IF ctx.status # 200
       THEN /\ last' = Resp("POST", PAuthLogout, hdr, NoReq, ctx.status, NoBody)
            /\ UNCHANGED sessions
       ELSE /\ sessions' = DeleteMany(sessions,
                               {t \in DOMAIN sessions : sessions[t].userId = ctx.user.id})
            /\ last' = Resp("POST", PAuthLogout, hdr, NoReq, 200, [success |-> TRUE])
    /\ UNCHANGED <<users, nextTok, seedings, dataVars>>

\* POST /api/auth/logout
AuthLogout(hdr) ==
    LET ctx == AuthMiddleware(PAuthLogout, hdr) IN
    /\ IF ctx.status # 200
       THEN /\ last' = Resp("POST", PAuthLogout, hdr, NoReq, ctx.status, NoBody)
            /\ UNCHANGED sessions
       ELSE /\ sessions' = IF ctx.sessionId # 0 THEN Delete(sessions, ctx.sessionId)
                          ELSE sessions
            /\ last' = Resp("POST", PAuthLogout, hdr, NoReq, 200, [success |-> TRUE])
    /\ UNCHANGED <<users, nextTok, seedings, dataVars>>

\* GET /api/auth/me
AuthMe(hdr) ==
    LET ctx == AuthMiddleware(PAuthMe, hdr) IN
    /\ IF ctx.status # 200
       THEN last' = Resp("GET", PAuthMe, hdr, NoReq, ctx.status, NoBody)
       ELSE IF ~ctx.hasUser
       THEN last' = Resp("GET", PAuthMe, hdr, NoReq, 401, NoBody)
       ELSE last' = Resp("GET", PAuthMe, hdr, NoReq, 200, SafeUser(ctx.user))
    /\ UNCHANGED <<users, sessions, nextTok, seedings, dataVars>>

\* POST /api/admin/sessions/clear
SessionsClear(hdr, limit) ==
    LET status == RequireRole({"admin"}, AuthMiddleware(PSessionsClear, hdr)) IN
    /\ IF status # 200
       THEN /\ last' = Resp("POST", PSessionsClear, hdr, NoReq, status, NoBody)
            /\ UNCHANGED sessions
       ELSE \E ids \in ListPages(sessions, limit) :
            /\ sessions' = DeleteMany(sessions, ids)
            /\ last' = Resp("POST", PSessionsClear, hdr, NoReq, 200,
                            [cleared |-> Cardinality(ids)])
    /\ UNCHANGED <<users, nextTok, seedings, dataVars>>

\* inst.mutate(curr => ({ ...curr, role, active, features }))
MutateUser(coll, update) ==
    Extend(coll, update.id,
           [(IF update.id \in DOMAIN coll THEN coll[update.id] ELSE NoUser)
               EXCEPT !.role = update.role, !.active = update.active])

RECURSIVE ApplyUpdates(_, _)
ApplyUpdates(coll, updates) ==
    IF updates = <<>> THEN coll
    ELSE ApplyUpdates(MutateUser(coll, Head(updates)), Tail(updates))

\* update lists that switch a seeded user on or off and resend its role
ActiveUpdates ==
    {<<>>} \cup {<<[id |-> i, role |-> users[i].role, active |-> a]>> :
                    i \in DOMAIN users, a \in BOOLEAN}

\* update lists that give a user a role and resend its active flag
RoleUpdates ==
    {<<[id |-> i, role |-> r, active |-> users[i].active]>> :
        i \in DOMAIN users, r \in Roles}

\* POST /api/config/users
ConfigUsersPost(hdr, updates) ==
    LET status == RequireRole({"admin"}, AuthMiddleware(PConfigUsers, hdr)) IN
    /\ IF status # 200
       THEN /\ last' = Resp("POST", PConfigUsers, hdr, NoReq, status, NoBody)
            /\ UNCHANGED users
       ELSE /\ users' = ApplyUpdates(users, updates)
            /\ last' = Resp("POST", PConfigUsers, hdr, NoReq, 200, [success |-> TRUE])
    /\ UNCHANGED <<sessions, nextTok, seedings, dataVars>>

(***************************************************************************)
(* Records.  Ids minted by the server are "1", "2", ... in the order of    *)
(* the crypto.randomUUID calls; Date.now() of a create is the number of    *)
(* that call.                                                              *)
(***************************************************************************)
NewId == ToString(nextId + 1)

Now == nextId + 1

\* body.f || dflt
OrElse(body, f, falsy, dflt) ==
    IF f \in DOMAIN body /\ body[f] # falsy THEN body[f] ELSE dflt

\* { ...defaults, ...body }
Spread(defaults, body) ==
    [f \in DOMAIN defaults \cup DOMAIN body |->
        IF f \in DOMAIN body THEN body[f] ELSE defaults[f]]

RECURSIVE SumOf(_, _)
\* items.reduce((sum, item) => sum + item[f], 0)
SumOf(items, f) ==
    IF items = {} THEN 0
    ELSE LET item == CHOOSE x \in items : TRUE IN item[f] + SumOf(items \ {item}, f)

\* the percentage without the test for an empty page
PctUnguarded(count, total) == [num |-> count * 100, den |-> total]

\* (count / total) * 100, or 0 for no item; the quotient is kept exact
Pct(count, total) ==
    IF total > 0 THEN [num |-> count * 100, den |-> total] ELSE [num |-> 0, den |-> 1]

DashboardLimit == 500

ReportLimit == 1000

SupplierListLimit == 100

RecordListLimit == 200

ConfigListLimit == 200

(***************************************************************************)
(* Dashboard and EPR report.                                               *)
(***************************************************************************)
\* items.sort((a, b) => b[key] - a[key]).slice(0, 5): the orders the sort can
\* give (records of equal key keep the order of the page, which is any order)
Recent(items, key) ==
    LET n == Cardinality(items)
        sorted == {q \in [1..n -> items] :
                      \A i, j \in 1..n : i < j => q[i] # q[j] /\ q[i][key] >= q[j][key]}
    IN  {SubSeq(q, 1, IF n < 5 THEN n ELSE 5) : q \in sorted}

\* names every object literal answers to besides its own keys: the members it
\* inherits from Object.prototype, all of them truthy
ObjectPrototypeKeys ==
    {"constructor", "toString", "toLocaleString", "valueOf", "hasOwnProperty",
     "isPrototypeOf", "propertyIsEnumerable", "__proto__"}

\* data[user.role] || data.operator: the projection under the role's key,
\* the inherited member under an inherited name, data.operator for any
\* other name
Summary(role, d) ==
    IF role = "manager"
    THEN [totalWeight |-> d.totalWeight, totalValue |-> d.totalValue,
          totalEPR |-> d.totalEPR, recentSuppliers |-> d.recentSuppliers,
          recentLedger |-> d.recentLedger]
    ELSE IF role = "admin"
    THEN [totalWeight |-> d.totalWeight, totalValue |-> d.totalValue,
          totalEPR |-> d.totalEPR, weeePct |-> d.weeePct,
          recentSuppliers |-> d.recentSuppliers, userCount |-> d.userCount]
    ELSE IF role = "auditor"
    THEN [totalWeight |-> d.totalWeight, totalEPR |-> d.totalEPR,
          weeePct |-> d.weeePct, recentLedger |-> d.recentLedger,
          recentTransactions |-> d.recentTransactions]
    ELSE IF role \in ObjectPrototypeKeys
    THEN [inherited |-> role]
    ELSE [recentTransactions |-> d.recentTransactions, recentLedger |-> d.recentLedger]

\* GET /api/dashboard
Dashboard(hdr) ==
    LET ctx == AuthMiddleware(PDashboard, hdr) IN
    /\ IF ctx.status # 200
       THEN last' = Resp("GET", PDashboard, hdr, NoReq, ctx.status, NoBody)
       ELSE IF ~ctx.hasUser
       THEN last' = Resp("GET", PDashboard, hdr, NoReq, 401, NoBody)
       ELSE \E sp \in ListPages(suppliers, DashboardLimit),
               lp \in ListPages(ledger, DashboardLimit),
               tp \in ListPages(transactions, DashboardLimit),
               up \in ListPages(users, UserLoginLimit) :
            \E rs \in Recent(Items(suppliers, sp), "created_at"),
               rl \in Recent(Items(ledger, lp), "capture_timestamp"),
               rt \in Recent(Items(transactions, tp), "transaction_timestamp") :
            LET d == [recentSuppliers |-> rs, recentLedger |-> rl,
                      recentTransactions |-> rt,
                      totalWeight |-> SumOf(Items(ledger, lp), "weight_kg"),
                      totalValue |-> SumOf(Items(transactions, tp), "amount"),
                      totalEPR |-> SumOf(Items(transactions, tp), "epr_fee"),
                      weeePct |-> Pct(Cardinality({i \in sp : suppliers[i].is_weee_compliant}),
                                      Cardinality(sp)),
                      userCount |-> Cardinality(up)]
            IN  last' = Resp("GET", PDashboard, hdr,
                             [suppliers |-> sp, ledger |-> lp, transactions |-> tp], 200,
                             [summary |-> Summary(ctx.user.role, d),
                              hardwareStatus |-> [scale |-> "connected", camera |-> "healthy"],
                              pendingSyncCount |-> 0])
    /\ UNCHANGED <<users, sessions, nextTok, seedings, dataVars>>

\* the lookup built from the ledger as the store holds it when the join runs,
\* not from the page that was read
LedgerMapOfStore(ledgerItems) == [i \in DOMAIN ledger |-> ledger[i]]

\* new Map(ledgerItems.map(l => [l.id, l]))
LedgerMap(ledgerItems) ==
    [i \in {l.id : l \in ledgerItems} |-> CHOOSE l \in ledgerItems : l.id = i]

RECURSIVE StreamsOverwrites(_, _, _)
\* the fold assigning to a bucket instead of adding to it
StreamsOverwrites(todo, ledgerMap, acc) ==
    IF todo = {} THEN acc
    ELSE LET t == CHOOSE x \in todo : TRUE
             rest == todo \ {t}
         IN  IF t.ledger_entry_id \in DOMAIN ledgerMap
             THEN LET ledgerEntry == ledgerMap[t.ledger_entry_id]
                      streamName == getEprStream(ledgerEntry.material_type)
                  IN  StreamsOverwrites(rest, ledgerMap,
                          Extend(acc, streamName,
                                 [weight |-> ledgerEntry.weight_kg, fees |-> t.epr_fee]))
             ELSE StreamsOverwrites(rest, ledgerMap, acc)

RECURSIVE Streams(_, _, _)
\* transactionItems.forEach(t => { ... }) over the entries of `todo`
Streams(todo, ledgerMap, acc) ==
    IF todo = {} THEN acc
    ELSE LET t == CHOOSE x \in todo : TRUE
             rest == todo \ {t}
         IN  IF t.ledger_entry_id \in DOMAIN ledgerMap
             THEN LET ledgerEntry == ledgerMap[t.ledger_entry_id]
                      streamName == getEprStream(ledgerEntry.material_type)
                      cur == IF streamName \in DOMAIN acc THEN acc[streamName]
                             ELSE [weight |-> 0, fees |-> 0]
                  IN  Streams(rest, ledgerMap,
                          Extend(acc, streamName,
                                 [weight |-> cur.weight + ledgerEntry.weight_kg,
                                  fees |-> cur.fees + t.epr_fee]))
             ELSE Streams(rest, ledgerMap, acc)

\* the report whose total_fees leaves out the transactions that resolve to no
\* ledger entry
ReportResolvedFeesOnly(supplierItems, ledgerItems, transactionItems) ==
    [compliance_pct |-> Pct(Cardinality({x \in supplierItems : x.is_weee_compliant}),
                            Cardinality(supplierItems)),
     total_fees |-> SumOf({t \in transactionItems :
                              t.ledger_entry_id \in DOMAIN LedgerMap(ledgerItems)}, "epr_fee"),
     streams |-> Streams(transactionItems, LedgerMap(ledgerItems), <<>>)]

\* the report computed from the three pages
Report(supplierItems, ledgerItems, transactionItems) ==
    [compliance_pct |-> Pct(Cardinality({x \in supplierItems : x.is_weee_compliant}),
                            Cardinality(supplierItems)),
     total_fees |-> SumOf(transactionItems, "epr_fee"),
     streams |-> Streams(transactionItems, LedgerMap(ledgerItems), <<>>)]

\* GET /api/epr-report
EprReport(hdr) ==
    LET status == RequireRole({"admin", "auditor"}, AuthMiddleware(PEprReport, hdr)) IN
    /\ IF status # 200
       THEN last' = Resp("GET", PEprReport, hdr, NoReq, status, NoBody)
       ELSE \E sp \in ListPages(suppliers, ReportLimit),
               lp \in ListPages(ledger, ReportLimit),
               tp \in ListPages(transactions, ReportLimit) :
            last' = Resp("GET", PEprReport, hdr,
                         [suppliers |-> sp, ledger |-> lp, transactions |-> tp], 200,
                         Report(Items(suppliers, sp), Items(ledger, lp),
                                Items(transactions, tp)))
    /\ UNCHANGED <<users, sessions, nextTok, seedings, dataVars>>

(***************************************************************************)
(* Users, suppliers, ledger, transactions.                                 *)
(***************************************************************************)
\* GET /api/config/users
ConfigUsersGet(hdr) ==
    LET status == RequireRole({"admin"}, AuthMiddleware(PConfigUsers, hdr)) IN
    /\ IF status # 200
       THEN last' = Resp("GET", PConfigUsers, hdr, NoReq, status, NoBody)
       ELSE \E page \in ListPages(users, ConfigListLimit) :
            last' = Resp("GET", PConfigUsers, hdr, NoReq, 200,
                         [items |-> {SafeUser(users[i]) : i \in page}])
    /\ UNCHANGED <<users, sessions, nextTok, seedings, dataVars>>

\* GET /api/suppliers
SuppliersGet(hdr) ==
    LET ctx == AuthMiddleware(PSuppliers, hdr) IN
    /\ IF ctx.status # 200
       THEN last' = Resp("GET", PSuppliers, hdr, NoReq, ctx.status, NoBody)
       ELSE \E page \in ListPages(suppliers, SupplierListLimit) :
            last' = Resp("GET", PSuppliers, hdr, NoReq, 200,
                         [items |-> Items(suppliers, page)])
    /\ UNCHANGED <<users, sessions, nextTok, seedings, dataVars>>

\* POST /api/suppliers; at most `cap` ids are minted in a run
SuppliersPost(hdr, body, cap) ==
    LET status == RequireRole({"admin", "manager"}, AuthMiddleware(PSuppliers, hdr))
        supplier == Spread([id |-> NewId,
                            name |-> OrElse(body, "name", "", "Unnamed"),
                            is_weee_compliant |-> OrElse(body, "is_weee_compliant", FALSE, FALSE),
                            created_at |-> Now,
                            updated_at |-> Now], body)
    IN
    /\ IF status # 200
       THEN /\ last' = Resp("POST", PSuppliers, hdr, NoReq, status, NoBody)
            /\ UNCHANGED <<suppliers, nextId>>
       ELSE /\ nextId < cap
            /\ suppliers' = Create(suppliers, supplier)
            /\ nextId' = nextId + 1
            /\ last' = Resp("POST", PSuppliers, hdr, NoReq, 200, supplier)
    /\ UNCHANGED <<users, sessions, nextTok, seedings, ledger, transactions, mat, stream, inflight, client>>

PSupplier(id) == PSuppliers \o <<"/", id>>

\* the delete reporting deleted: true whether or not the id was stored
SuppliersDeleteReportsDeleted(hdr, id) ==
    LET status == RequireRole({"admin", "manager"}, AuthMiddleware(PSupplier(id), hdr)) IN
    /\ IF status # 200
       THEN /\ last' = Resp("DELETE", PSupplier(id), hdr, NoReq, status, NoBody)
            /\ UNCHANGED suppliers
       ELSE /\ suppliers' = Delete(suppliers, id)
            /\ last' = Resp("DELETE", PSupplier(id), hdr, NoReq, 200,
                            [id |-> id, deleted |-> TRUE])
    /\ UNCHANGED <<users, sessions, nextTok, seedings, ledger, transactions, nextId,
                   mat, stream, inflight, client>>

\* DELETE /api/suppliers/:id
SuppliersDelete(hdr, id) ==
    LET status == RequireRole({"admin", "manager"}, AuthMiddleware(PSupplier(id), hdr)) IN
    /\ IF status # 200
       THEN /\ last' = Resp("DELETE", PSupplier(id), hdr, NoReq, status, NoBody)
            /\ UNCHANGED suppliers
       ELSE /\ suppliers' = Delete(suppliers, id)
            /\ last' = Resp("DELETE", PSupplier(id), hdr, NoReq, 200,
                            [id |-> id, deleted |-> id \in DOMAIN suppliers])
    /\ UNCHANGED <<users, sessions, nextTok, seedings, ledger, transactions, nextId,
                   mat, stream, inflight, client>>

\* GET /api/ledger
LedgerGet(hdr) ==
    LET ctx == AuthMiddleware(PLedger, hdr) IN
    /\ IF ctx.status # 200
       THEN last' = Resp("GET", PLedger, hdr, NoReq, ctx.status, NoBody)
       ELSE \E page \in ListPages(ledger, RecordListLimit) :
            last' = Resp("GET", PLedger, hdr, NoReq, 200, [items |-> Items(ledger, page)])
    /\ UNCHANGED <<users, sessions, nextTok, seedings, dataVars>>

\* POST /api/ledger; at most `cap` ids are minted in a run
LedgerPost(hdr, body, cap) ==
    LET ctx == AuthMiddleware(PLedger, hdr)
        entry == Spread([id |-> NewId,
                         supplier_id |-> OrElse(body, "supplier_id", "", ""),
                         material_type |-> OrElse(body, "material_type", <<>>, <<>>),
                         weight_kg |-> OrElse(body, "weight_kg", 0, 0),
                         capture_timestamp |-> Now,
                         is_synced |-> TRUE,
                         created_at |-> Now], body)
    IN
    /\ IF ctx.status # 200
       THEN /\ last' = Resp("POST", PLedger, hdr, NoReq, ctx.status, NoBody)
            /\ UNCHANGED <<ledger, nextId>>
       ELSE /\ nextId < cap
            /\ ledger' = Create(ledger, entry)
            /\ nextId' = nextId + 1
            /\ last' = Resp("POST", PLedger, hdr, NoReq, 200, entry)
    /\ UNCHANGED <<users, sessions, nextTok, seedings, suppliers, transactions, mat, stream, inflight, client>>

\* GET /api/transactions
TransactionsGet(hdr) ==
    LET ctx == AuthMiddleware(PTransactions, hdr) IN
    /\ IF ctx.status # 200
       THEN last' = Resp("GET", PTransactions, hdr, NoReq, ctx.status, NoBody)
       ELSE \E page \in ListPages(transactions, RecordListLimit) :
            last' = Resp("GET", PTransactions, hdr, NoReq, 200,
                         [items |-> Items(transactions, page)])
    /\ UNCHANGED <<users, sessions, nextTok, seedings, dataVars>>

\* POST /api/transactions; at most `cap` ids are minted in a run
TransactionsPost(hdr, body, cap) ==
    LET ctx == AuthMiddleware(PTransactions, hdr)
        t == Spread([id |-> NewId,
                     ledger_entry_id |-> OrElse(body, "ledger_entry_id", "", ""),
                     amount |-> OrElse(body, "amount", 0, 0),
                     currency |-> "ZAR",
                     transaction_timestamp |-> Now,
                     epr_fee |-> OrElse(body, "epr_fee", 0, 0),
                     is_synced |-> TRUE,
                     created_at |-> Now], body)
    IN
    /\ IF ctx.status # 200
       THEN /\ last' = Resp("POST", PTransactions, hdr, NoReq, ctx.status, NoBody)
            /\ UNCHANGED <<transactions, nextId>>
       ELSE /\ nextId < cap
            /\ transactions' = Create(transactions, t)
            /\ nextId' = nextId + 1
            /\ last' = Resp("POST", PTransactions, hdr, NoReq, 200, t)
    /\ UNCHANGED <<users, sessions, nextTok, seedings, suppliers, ledger, mat, stream, inflight, client>>

RECURSIVE CreateAll(_, _)
\* for (const e of pending) await Entity.create(env, { ...e, is_synced: true })
CreateAll(coll, pending) ==
    IF pending = <<>> THEN coll
    ELSE CreateAll(Create(coll, Spread(Head(pending), [is_synced |-> TRUE])), Tail(pending))

\* pending.map(e => e.id)
IdsOf(pending) == [i \in DOMAIN pending |-> pending[i].id]

\* the inserts a sync makes: all of the list when failed = 0, those before the
\* failed-th when the failed-th Entity.create throws
Inserted(pending, failed) ==
    IF failed = 0 THEN pending ELSE SubSeq(pending, 1, failed - 1)

\* the sync undoing its inserts when one of them throws
SyncLedgerRollsBack(hdr, pendingEntries, failed) ==
    LET ctx == AuthMiddleware(PSyncLedger, hdr)
        req == [pending |-> pendingEntries, failed |-> failed]
    IN
    /\ failed \in 0..Len(pendingEntries)
    /\ IF ctx.status # 200
       THEN /\ last' = Resp("POST", PSyncLedger, hdr, req, ctx.status, NoBody)
            /\ UNCHANGED ledger
       ELSE IF failed # 0
       THEN /\ UNCHANGED ledger
            /\ last' = Resp("POST", PSyncLedger, hdr, req, 500, NoBody)
       ELSE /\ ledger' = CreateAll(ledger, pendingEntries)
            /\ last' = Resp("POST", PSyncLedger, hdr, req, 200,
                            [syncedIds |-> IdsOf(pendingEntries)])
    /\ UNCHANGED <<users, sessions, nextTok, seedings, suppliers, transactions, nextId,
                   mat, stream, inflight, client>>

\* POST /api/sync/ledger.  An Entity.create that throws ends the handler: the
\* inserts made so far stay, the return is not reached and the caller gets
\* the error response (500).
SyncLedger(hdr, pendingEntries, failed) ==
    LET ctx == AuthMiddleware(PSyncLedger, hdr)
        req == [pending |-> pendingEntries, failed |-> failed]
    IN
    /\ failed \in 0..Len(pendingEntries)
    /\ IF ctx.status # 200
       THEN /\ last' = Resp("POST", PSyncLedger, hdr, req, ctx.status, NoBody)
            /\ UNCHANGED ledger
       ELSE IF failed # 0
       THEN /\ ledger' = CreateAll(ledger, Inserted(pendingEntries, failed))
            /\ last' = Resp("POST", PSyncLedger, hdr, req, 500, NoBody)
       ELSE /\ ledger' = CreateAll(ledger, pendingEntries)
            /\ last' = Resp("POST", PSyncLedger, hdr, req, 200,
                            [syncedIds |-> IdsOf(pendingEntries)])
    /\ UNCHANGED <<users, sessions, nextTok, seedings, suppliers, transactions, nextId,
                   mat, stream, inflight, client>>

\* POST /api/sync/transactions
SyncTransactions(hdr, pendingTransactions, failed) ==
    LET ctx == AuthMiddleware(PSyncTransactions, hdr)
        req == [pending |-> pendingTransactions, failed |-> failed]
    IN
    /\ failed \in 0..Len(pendingTransactions)
    /\ IF ctx.status # 200
       THEN /\ last' = Resp("POST", PSyncTransactions, hdr, req, ctx.status, NoBody)
            /\ UNCHANGED transactions
       ELSE IF failed # 0
       THEN /\ transactions' = CreateAll(transactions, Inserted(pendingTransactions, failed))
            /\ last' = Resp("POST", PSyncTransactions, hdr, req, 500, NoBody)
       ELSE /\ transactions' = CreateAll(transactions, pendingTransactions)
            /\ last' = Resp("POST", PSyncTransactions, hdr, req, 200,
                            [syncedIds |-> IdsOf(pendingTransactions)])
    /\ UNCHANGED <<users, sessions, nextTok, seedings, suppliers, ledger, nextId,
                   mat, stream, inflight, client>>

\* GET /api/camera/snapshot
CameraSnapshot(hdr) ==
    LET ctx == AuthMiddleware(PCameraSnapshot, hdr) IN
    /\ IF ctx.status # 200
       THEN last' = Resp("GET", PCameraSnapshot, hdr, NoReq, ctx.status, NoBody)
       ELSE last' = Resp("GET", PCameraSnapshot, hdr, NoReq, 200, [imageUrl |-> "snapshot"])
    /\ UNCHANGED <<users, sessions, nextTok, seedings, dataVars>>

\* GET /api/health (registered outside user-routes.ts)
Health(hdr) ==
    LET ctx == AuthMiddleware(PHealth, hdr) IN
    /\ ctx.status = 200
    /\ last' = Resp("GET", PHealth, hdr, NoReq, 200, [status |-> "healthy"])
    /\ UNCHANGED <<users, sessions, nextTok, seedings, dataVars>>

\* requests no route of the worker matches: the middleware runs, then the
\* router answers Not Found
PHealthz == <<"/api", "/health", "z">>

PAuthLoginX == <<"/api", "/auth", "/login", "/x">>

PNowhere == <<"/api", "/nowhere">>

UnroutedPaths == {PHealthz, PAuthLoginX, PNowhere}

Unrouted(path, hdr) ==
    LET ctx == AuthMiddleware(path, hdr) IN
    /\ IF ctx.status # 200
       THEN last' = Resp("GET", path, hdr, NoReq, ctx.status, NoBody)
       ELSE last' = Resp("GET", path, hdr, NoReq, 404, NoBody)
    /\ UNCHANGED <<users, sessions, nextTok, seedings, dataVars>>

(***************************************************************************)
(* The client auth store (useAuthStore): user, token and isAuthenticated   *)
(* in memory, the 'token' entry of localStorage, the entry the persist     *)
(* middleware writes on every set, and the browser location.  null is      *)
(* NullUser for a user and NullToken for a token; op names the operation   *)
(* that ran last and was tells whether the store was authenticated before  *)
(* it (history).                                                           *)
(***************************************************************************)
MaxClientTokens == 2

NullUser == [id |-> "", username |-> "", role |-> "", active |-> FALSE]

NullToken == 0

\* !!user
Truthy(user) == user # NullUser

\* the users a login response or /api/auth/me can hand to the store
ClientUsers == {SafeUser([SeedUsers[i] EXCEPT !.role = r]) : i \in DOMAIN SeedUsers, r \in Roles}

ClientTokens == 1..MaxClientTokens

\* the state the store is created with
InitialAuthState ==
    [user |-> NullUser, token |-> NullToken, isAuthenticated |-> FALSE,
     localToken |-> NullToken,
     persisted |-> [user |-> NullUser, token |-> NullToken, isAuthenticated |-> FALSE],
     location |-> "/", op |-> "", was |-> FALSE]

\* set({user, token, isAuthenticated}) under the persist middleware: the
\* new state is written to the 'suitewaste-auth-storage' entry as well
SetState(c, user, token, isAuthenticated) ==
    [c EXCEPT !.user = user, !.token = token, !.isAuthenticated = isAuthenticated,
              !.persisted = [user |-> user, token |-> token,
                             isAuthenticated |-> isAuthenticated]]

\* what the store's operations leave alone
serverVars == <<users, sessions, nextTok, suppliers, ledger, transactions, nextId,
                seedings, last, mat, stream, inflight>>

login(user, token) ==
    /\ client' = [SetState([client EXCEPT !.localToken = token], user, token, TRUE)
                    EXCEPT !.op = "login", !.was = client.isAuthenticated]
    /\ UNCHANGED serverVars

\* a logout that clears the user and the flag and leaves the token
logoutKeepsToken ==
    /\ client' = [SetState(client, NullUser, client.token, FALSE)
                    EXCEPT !.location = "/login", !.op = "logout",
                           !.was = client.isAuthenticated]
    /\ UNCHANGED serverVars

logout ==
    /\ client' = [SetState([client EXCEPT !.localToken = NullToken],
                           NullUser, NullToken, FALSE)
                    EXCEPT !.location = "/login", !.op = "logout",
                           !.was = client.isAuthenticated]
    /\ UNCHANGED serverVars

setUser(user) ==
    /\ client' = [SetState(client, user, client.token, Truthy(user))
                    EXCEPT !.op = "setUser", !.was = client.isAuthenticated]
    /\ UNCHANGED serverVars

\* a page load: the store is created again and the persisted entry is
\* merged into it; onRehydrateStorage then sets the flag when a token is there
rehydrate ==
    LET p == client.persisted IN
    /\ client' = [client EXCEPT !.user = p.user, !.token = p.token,
                                !.isAuthenticated = IF p.token # NullToken THEN TRUE
                                                    ELSE p.isAuthenticated,
                                !.op = "rehydrate", !.was = client.isAuthenticated]
    /\ UNCHANGED serverVars

Init ==
    /\ users = <<>>
    /\ sessions = <<>>
    /\ nextTok = 0
    /\ suppliers = <<>>
    /\ ledger = <<>>
    /\ transactions = <<>>
    /\ nextId = 0
    /\ seedings = 0
    /\ last = Resp("", <<>>, NoHeader, NoReq, 0, NoBody)
    /\ mat = <<>>
    /\ stream = ""
    /\ inflight = NoReport
    /\ client = InitialAuthState

Next ==
    \/ \E hdr \in ExemptHeaders : AuthInit(hdr)
    \/ \E hdr \in ExemptHeaders, u \in Usernames, p \in Passwords :
          AuthLogin(hdr, u, p, MaxTokens)
    \/ \E hdr \in Headers : AuthLogout(hdr)
    \/ \E hdr \in Headers : AuthMe(hdr)
    \/ \E hdr \in Headers : SessionsClear(hdr, SessionClearLimit)
    \/ \E hdr \in Headers, up \in ActiveUpdates : ConfigUsersPost(hdr, up)
    \/ \E hdr \in Headers : ConfigUsersGet(hdr)
    \/ \E hdr \in Headers : Dashboard(hdr)
    \/ \E hdr \in Headers : EprReport(hdr)
    \/ \E hdr \in Headers : SuppliersGet(hdr)
    \/ \E hdr \in Headers : SuppliersPost(hdr, [name |-> "Acme"], 0)
    \/ \E hdr \in Headers : SuppliersDelete(hdr, "1")
    \/ \E hdr \in Headers : LedgerGet(hdr)
    \/ \E hdr \in Headers : LedgerPost(hdr, [weight_kg |-> 125], 0)
    \/ \E hdr \in Headers : TransactionsGet(hdr)
    \/ \E hdr \in Headers : TransactionsPost(hdr, [epr_fee |-> 40], 0)
    \/ \E hdr \in Headers : SyncLedger(hdr, <<>>, 0)
    \/ \E hdr \in Headers : SyncTransactions(hdr, <<>>, 0)
    \/ \E hdr \in Headers : CameraSnapshot(hdr)
    \/ \E hdr \in ExemptHeaders : Health(hdr)
    \/ \E hdr \in Headers, path \in UnroutedPaths : Unrouted(path, hdr)

Spec == Init /\ [][Next]_vars

(***************************************************************************)
(* Runs that change roles: an admin rewrites the roles, the role-gated     *)
(* routes are called, suppliers are created and deleted.                   *)
(***************************************************************************)
RoleHeaders == {Bearer(t) : t \in 1..MaxRoleTokens}

SupplierBodies == {[name |-> "Acme", is_weee_compliant |-> TRUE]}

SupplierIds == {ToString(i) : i \in 1..MaxSuppliers}

NextRoles ==
    \/ AuthInit(NoHeader)
    \/ \E u \in Usernames, p \in Passwords : AuthLogin(NoHeader, u, p, MaxRoleTokens)
    \/ \E hdr \in RoleHeaders, up \in RoleUpdates : ConfigUsersPost(hdr, up)
    \/ \E hdr \in RoleHeaders : ConfigUsersGet(hdr)
    \/ \E hdr \in RoleHeaders : SessionsClear(hdr, SessionClearLimit)
    \/ \E hdr \in RoleHeaders : EprReport(hdr)
    \/ \E hdr \in RoleHeaders : SuppliersGet(hdr)
    \/ \E hdr \in RoleHeaders, body \in SupplierBodies : SuppliersPost(hdr, body, MaxSuppliers)
    \/ \E hdr \in RoleHeaders, id \in SupplierIds : SuppliersDelete(hdr, id)

SpecRoles == Init /\ [][NextRoles]_vars

(***************************************************************************)
(* Runs with more sessions than the page of the bulk clear holds.          *)
(***************************************************************************)
NextPaged ==
    \/ AuthInit(NoHeader)
    \/ \E u \in Usernames, p \in Passwords : AuthLogin(NoHeader, u, p, MaxTokens)
    \/ \E hdr \in Headers : AuthLogout(hdr)
    \/ \E hdr \in Headers : AuthMe(hdr)
    \/ \E hdr \in Headers : SessionsClear(hdr, PagedClearLimit)

SpecPaged == Init /\ [][NextPaged]_vars

(***************************************************************************)
(* Report runs: an admin is logged in (token 1), ledger entries and        *)
(* transactions are created and the EPR report is read.                    *)
(***************************************************************************)
InitReport ==
    /\ users = SeedUsers
    /\ sessions = Extend(<<>>, 1, [id |-> 1, userId |-> "u1", createdAt |-> 1])
    /\ nextTok = 1
    /\ suppliers = <<>>
    /\ ledger = <<>>
    /\ transactions = <<>>
    /\ nextId = 0
    /\ seedings = 1
    /\ last = Resp("POST", PAuthLogin, NoHeader, [username |-> "admin", password |-> "pwA"],
                   200, [user |-> SafeUser(SeedUsers["u1"]), token |-> 1])
    /\ mat = <<>>
    /\ stream = ""
    /\ inflight = NoReport
    /\ client = InitialAuthState

LedgerBodies ==
    {[material_type |-> m, weight_kg |-> w] :
        m \in {CopperWire, PetBottles, UnknownDebris}, w \in {125, 30}}

\* ids a transaction can refer to: the ids the server mints, and one it never mints
RefIds == {ToString(i) : i \in 1..MaxRecords} \cup {"none"}

TransactionBodies ==
    {[ledger_entry_id |-> r, amount |-> 200, epr_fee |-> f] : r \in RefIds, f \in {40, 15}}

NextReport ==
    \/ \E body \in LedgerBodies : LedgerPost(Bearer(1), body, MaxRecords)
    \/ \E body \in TransactionBodies : TransactionsPost(Bearer(1), body, MaxRecords)
    \/ EprReport(Bearer(1))

SpecReport == InitReport /\ [][NextReport]_vars

(***************************************************************************)
(* Classifier runs: one material type, classified once.                    *)
(***************************************************************************)
Pieces ==
    {<<"p", "l", "a", "s", "t", "i", "c">>,
     <<"P", "E", "T">>,
     <<"P", "a", "p", "e", "r">>,
     <<"c", "a", "r", "d", "b", "o", "a", "r", "d">>,
     <<"G", "L", "A", "S", "S">>,
     <<"c", "o", "p", "p", "e", "r">>,
     <<"A", "l", "u", "m", "i", "n", "u", "m">>,
     <<"s", "t", "e", "e", "l">>,
     <<"m", "e", "t", "a", "l">>,
     <<"e", "l", "e", "c", "t", "r", "o", "n", "i", "c">>,
     <<"W", "E", "E", "E">>,
     <<"b", "a", "t", "t", "e", "r", "y">>,
     <<"-">>,
     <<"x">>,
     <<"p", "e">>,
     <<"t">>,
     <<"g", "l", "a">>,
     <<"s", "s">>,
     <<"C", "o", "p", "p", "e", "r", " ", "w", "i", "r", "e">>,
     <<"u", "n", "k", "n", "o", "w", "n", " ", "d", "e", "b", "r", "i", "s">>,
     <<"p", "l", "a", "s", "t", "i", "c", "-", "g", "l", "a", "s", "s", " ", "l", "a", "m", "i", "n", "a", "t", "e">>}

RECURSIVE Concat(_)
Concat(ps) == IF ps = <<>> THEN <<>> ELSE Head(ps) \o Concat(Tail(ps))

MaterialTypes ==
    {Concat(ps) : ps \in UNION {[1..n -> Pieces] : n \in 0..MaxPieces}}

InitClassify ==
    /\ users = <<>>
    /\ sessions = <<>>
    /\ nextTok = 0
    /\ suppliers = <<>>
    /\ ledger = <<>>
    /\ transactions = <<>>
    /\ nextId = 0
    /\ seedings = 0
    /\ last = Resp("", <<>>, NoHeader, NoReq, 0, NoBody)
    /\ mat \in MaterialTypes
    /\ stream = ""
    /\ inflight = NoReport
    /\ client = InitialAuthState

Classify ==
    /\ stream = ""
    /\ stream' = getEprStream(mat)
    /\ UNCHANGED <<users, sessions, nextTok, suppliers, ledger, transactions, nextId,
                   seedings, last, mat, inflight, client>>

NextClassify == Classify

SpecClassify == InitClassify /\ [][NextClassify]_vars
(***************************************************************************)
(* The session gate.                                                       *)
(***************************************************************************)
\* the routes registered behind the session gate
GatedRoutes ==
    {PAuthLogout, PAuthMe, PSessionsClear, PDashboard, PEprReport, PConfigUsers,
     PSuppliers, PLedger, PTransactions, PSyncLedger, PSyncTransactions,
     PCameraSnapshot} \cup {PSupplier(ToString(i)) : i \in 1..MaxSuppliers}

\* the request of the step carries the token of a stored session of a stored user
HoldsSession(r) ==
    /\ r.hdr.scheme = "Bearer"
    /\ r.hdr.token \in DOMAIN sessions
    /\ sessions[r.hdr.token].userId \in DOMAIN users

Caller(r) == users[sessions[r.hdr.token].userId]

\* C1: a request to a route behind the session gate that carries the bearer
\* token of an existing session of a user whose active flag is false is
\* answered 401, and the store is left as it was (no handler ran).
C1_InactiveUserRejected ==
    [][(/\ last'.path \in GatedRoutes
        /\ HoldsSession(last')
        /\ ~Caller(last').active)
       => (last'.status = 401 /\ store' = store /\ nextId' = nextId)]_vars

\* a gated request with the live token of a deactivated user was answered 401
C1_Witness ==
    /\ last.path \in GatedRoutes
    /\ HoldsSession(last)
    /\ ~Caller(last).active
    /\ last.status = 401

(***************************************************************************)
(* The role gate.                                                          *)
(***************************************************************************)
IsSupplierPath(path) == Len(path) = 4 /\ SubSeq(path, 1, 3) = PSuppliers \o <<"/">>

\* the allow-list of a role-restricted route ({} for the other routes)
AllowList(method, path) ==
    IF path = PSessionsClear /\ method = "POST" THEN {"admin"}
    ELSE IF path = PConfigUsers /\ method \in {"GET", "POST"} THEN {"admin"}
    ELSE IF path = PEprReport /\ method = "GET" THEN {"admin", "auditor"}
    ELSE IF path = PSuppliers /\ method = "POST" THEN {"admin", "manager"}
    ELSE IF IsSupplierPath(path) /\ method = "DELETE" THEN {"admin", "manager"}
    ELSE {}

\* C2: a request to a role-restricted route whose session resolves to an
\* active user with a role outside the route's allow-list is answered 403
\* (not 401), and the store is left as it was.
C2_RoleOutsideAllowListForbidden ==
    [][(/\ AllowList(last'.method, last'.path) # {}
        /\ HoldsSession(last')
        /\ Caller(last').active
        /\ Caller(last').role \notin AllowList(last'.method, last'.path))
       => (last'.status = 403 /\ store' = store /\ nextId' = nextId)]_vars

\* an auditor's supplier create was answered 403
C2_Witness ==
    /\ last.method = "POST"
    /\ last.path = PSuppliers
    /\ HoldsSession(last)
    /\ Caller(last).active
    /\ Caller(last).role = "auditor"
    /\ last.status = 403

\* the request of the step does not resolve to a user: no Bearer header, no
\* session under the token, a session without userId, no such user, a user
\* without id
NoSessionUser(r) ==
    \/ r.hdr.scheme # "Bearer"
    \/ r.hdr.token \notin DOMAIN sessions
    \/ sessions[r.hdr.token].userId = ""
    \/ sessions[r.hdr.token].userId \notin DOMAIN users
    \/ users[sessions[r.hdr.token].userId].id = ""

\* C3: /api/auth/init, /api/auth/login and /api/health are the only paths
\* exempt from the session gate: a request to any other path under /api that
\* does not resolve to a user is answered 401.
C3_OnlyThreePathsExempt ==
    [][(/\ StartsWith(last'.path, <<"/api">>)
        /\ last'.path \notin {PAuthInit, PAuthLogin, PHealth}
        /\ NoSessionUser(last'))
       => last'.status = 401]_vars

(***************************************************************************)
(* Login, /auth/me, logout.                                                *)
(***************************************************************************)
IsLogin(r) == r.method = "POST" /\ r.path = PAuthLogin

IsMe(r) == r.method = "GET" /\ r.path = PAuthMe

IsLogout(r) == r.method = "POST" /\ r.path = PAuthLogout

\* the users the credentials of a login request match
Matching(r) ==
    {i \in DOMAIN users : /\ users[i].username = r.req.username
                          /\ users[i].password_hash = r.req.password}

\* C4: the session a login creates belongs to the user the login returned and
\* keeps its owner; /auth/me with the token of a live session of an active
\* user returns the id of that owner; a logout with the token deletes the
\* session, a deleted session never comes back, and /auth/me with the token
\* of a deleted session is answered 401.
C4_LoginMeLogout ==
    [][/\ (IsLogin(last') /\ last'.status = 200)
            => /\ last'.body.token \notin DOMAIN sessions
               /\ last'.body.token \in DOMAIN sessions'
               /\ sessions'[last'.body.token].userId = last'.body.user.id
       /\ \A t \in DOMAIN sessions \cap DOMAIN sessions' :
              sessions'[t].userId = sessions[t].userId
       /\ (IsMe(last') /\ HoldsSession(last') /\ Caller(last').active)
            => /\ last'.status = 200
               /\ last'.body.id = sessions[last'.hdr.token].userId
       /\ (IsMe(last') /\ last'.status = 200)
            => /\ HoldsSession(last')
               /\ last'.body.id = sessions[last'.hdr.token].userId
       /\ (IsLogout(last') /\ last'.status = 200)
            => /\ last'.hdr.token \in DOMAIN sessions
               /\ last'.hdr.token \notin DOMAIN sessions'
       /\ \A t \in 1..nextTok : t \notin DOMAIN sessions => t \notin DOMAIN sessions'
       /\ (IsMe(last') /\ last'.hdr.token \in 1..nextTok
                       /\ last'.hdr.token \notin DOMAIN sessions)
            => last'.status = 401]_vars

\* /auth/me with a minted token whose session is gone was answered 401 while
\* every user is active
C4_Witness ==
    /\ IsMe(last)
    /\ last.hdr.scheme = "Bearer"
    /\ last.hdr.token \in 1..nextTok
    /\ last.hdr.token \notin DOMAIN sessions
    /\ \A i \in DOMAIN users : users[i].active
    /\ last.status = 401

\* C5: a login with username and password present succeeds when an active
\* user matches both exactly; every successful login is for such a user,
\* stores exactly one new session, whose userId is that user's id and whose
\* id is the token returned, and leaves the other sessions as they were.
C5_LoginCreatesOneSession ==
    [][(IsLogin(last') /\ last'.req.username # Missing /\ last'.req.password # Missing)
       => /\ (\E i \in Matching(last') : users[i].active) => last'.status = 200
          /\ last'.status = 200
               => /\ last'.body.user.id \in Matching(last')
                  /\ users[last'.body.user.id].active
                  /\ last'.body.token \notin DOMAIN sessions
                  /\ DOMAIN sessions' = DOMAIN sessions \cup {last'.body.token}
                  /\ sessions'[last'.body.token].id = last'.body.token
                  /\ sessions'[last'.body.token].userId = last'.body.user.id
                  /\ \A t \in DOMAIN sessions : sessions'[t] = sessions[t]]_vars

\* a login succeeded and its session is stored
C5_Witness ==
    /\ IsLogin(last)
    /\ last.status = 200
    /\ last.body.token \in DOMAIN sessions
    /\ sessions[last.body.token].userId = last.body.user.id
    /\ Cardinality(DOMAIN sessions) = 2

\* C6: a login with username or password missing, or whose credentials match
\* no active user, is answered 400 and leaves the sessions as they were.
C6_FailedLoginCreatesNoSession ==
    [][(/\ IsLogin(last')
        /\ \/ last'.req.username = Missing
           \/ last'.req.password = Missing
           \/ ~\E i \in Matching(last') : users[i].active)
       => (last'.status = 400 /\ sessions' = sessions /\ nextTok' = nextTok)]_vars

\* the right credentials of a deactivated user were answered 400
C6_Witness ==
    /\ IsLogin(last)
    /\ last.status = 400
    /\ \E i \in Matching(last) : ~users[i].active

\* C7: a successful /admin/sessions/clear deletes all sessions (the caller's
\* own included) and returns the number of sessions deleted.
C7_ClearDeletesAllSessions ==
    [][(last'.path = PSessionsClear /\ last'.status = 200)
       => /\ DOMAIN sessions' = {}
          /\ last'.body.cleared = Cardinality(DOMAIN sessions)]_vars

\* C8: /auth/init answers seeded: true exactly when the user collection is
\* empty; a call made when a user exists leaves the users as they were; the
\* collection never becomes empty again, and at most one call ever answers
\* seeded: true.
C8_InitSeedsOnce ==
    [][/\ (last'.path = PAuthInit /\ last'.status = 200)
            => /\ last'.body.seeded <=> (DOMAIN users = {})
               /\ DOMAIN users # {} => users' = users
               /\ DOMAIN users' # {}
       /\ DOMAIN users # {} => DOMAIN users' # {}
       /\ seedings' <= 1]_vars

\* a second /auth/init call was answered seeded: false
C8_Witness ==
    /\ last.path = PAuthInit
    /\ last.status = 200
    /\ ~last.body.seeded
    /\ seedings = 1
    /\ users = SeedUsers

(***************************************************************************)
(* The classifier.                                                         *)
(***************************************************************************)
\* the keyword sets in their order of precedence
StreamOrder ==
    <<[label |-> "Plastic", keywords |-> {KwPlastic, KwPet}],
      [label |-> "Paper & Packaging", keywords |-> {KwPaper, KwCardboard}],
      [label |-> "Glass", keywords |-> {KwGlass}],
      [label |-> "Metals", keywords |-> {KwCopper, KwAluminum, KwSteel, KwMetal}],
      [label |-> "Electrical & Electronic", keywords |-> {KwElectronic, KwWeee, KwBattery}]>>

StreamLabels == {StreamOrder[k].label : k \in DOMAIN StreamOrder} \cup {"Other"}

\* the keyword sets a material type matches, whatever its case
Matches(m) ==
    {k \in DOMAIN StreamOrder :
        \E kw \in StreamOrder[k].keywords : Includes(ToLowerCase(m), kw)}

FirstMatch(m) ==
    IF Matches(m) = {} THEN "Other"
    ELSE StreamOrder[CHOOSE k \in Matches(m) : \A j \in Matches(m) : k <= j].label

\* C9: the classifier returns one of the six labels: that of the first
\* keyword set, in the order plastic/pet, paper/cardboard, glass,
\* copper/aluminum/steel/metal, electronic/weee/battery, of which the material
\* type contains a keyword whatever its case, and Other when it contains none
\* ("plastic-glass laminate" is Plastic, "unknown debris" is Other).
C9_ClassifierFirstMatchWins ==
    stream # "" =>
        /\ stream \in StreamLabels
        /\ stream = FirstMatch(mat)
        /\ mat = PlasticGlassLaminate => stream = "Plastic"
        /\ mat = UnknownDebris => stream = "Other"
        /\ mat = CopperWire => stream = "Metals"
        /\ mat = <<"G", "L", "A", "S", "S">> => stream = "Glass"

\* a material type with a plastic and a glass keyword was classified Plastic
C9_Witness ==
    /\ stream = "Plastic"
    /\ Includes(ToLowerCase(mat), KwGlass)
    /\ Includes(ToLowerCase(mat), KwPlastic)

(***************************************************************************)
(* The EPR report.                                                         *)
(***************************************************************************)
\* the fetched transactions that resolve to a fetched ledger entry of stream s
Resolving(L, T, s) ==
    {t \in T : \E l \in L : l.id = t.ledger_entry_id /\ getEprStream(l.material_type) = s}

EntryOf(L, t) == CHOOSE l \in L : l.id = t.ledger_entry_id

RECURSIVE WeightOver(_, _)
WeightOver(L, T) ==
    IF T = {} THEN 0
    ELSE LET t == CHOOSE x \in T : TRUE
         IN  EntryOf(L, t).weight_kg + WeightOver(L, T \ {t})

RECURSIVE FeesOver(_)
FeesOver(T) ==
    IF T = {} THEN 0
    ELSE LET t == CHOOSE x \in T : TRUE IN t.epr_fee + FeesOver(T \ {t})

\* C10: the streams of a report hold one bucket for every label some fetched
\* transaction resolves to through a fetched ledger entry, and no other; a
\* bucket's weight is the sum of the entries' weight_kg and its fees the sum
\* of epr_fee over those transactions.  One entry (12.5 kg, "Copper wire")
\* with one transaction (fee 4.0) gives Metals: weight 12.5, fees 4.0.
C10_ReportStreams ==
    (last.path = PEprReport /\ last.status = 200) =>
        LET L == Items(ledger, last.req.ledger)
            T == Items(transactions, last.req.transactions)
            streams == last.body.streams
        IN  /\ DOMAIN streams = {s \in StreamLabels : Resolving(L, T, s) # {}}
            /\ \A s \in DOMAIN streams :
                  /\ streams[s].weight = WeightOver(L, Resolving(L, T, s))
                  /\ streams[s].fees = FeesOver(Resolving(L, T, s))
            /\ (/\ Cardinality(L) = 1 /\ Cardinality(T) = 1
                /\ \E l \in L, t \in T : /\ l.material_type = CopperWire
                                         /\ l.weight_kg = 125
                                         /\ t.ledger_entry_id = l.id
                                         /\ t.epr_fee = 40)
               => streams = [s \in {"Metals"} |-> [weight |-> 125, fees |-> 40]]

\* a report over one "Copper wire" entry of 12.5 kg and two transactions that
\* refer to it, with fees 4.0 and 1.5
C10_Witness ==
    /\ last.path = PEprReport
    /\ last.status = 200
    /\ Cardinality(DOMAIN ledger) = 1
    /\ Cardinality(DOMAIN transactions) = 2
    /\ DOMAIN last.body.streams = {"Metals"}
    /\ last.body.streams["Metals"] = [weight |-> 250, fees |-> 55]

\* the fetched transactions whose ledger_entry_id matches no fetched ledger entry
NonResolving(L, T) == {t \in T : ~\E l \in L : l.id = t.ledger_entry_id}

RECURSIVE StreamFees(_)
\* the fees of all the buckets of a streams mapping
StreamFees(streams) ==
    IF DOMAIN streams = {} THEN 0
    ELSE LET s == CHOOSE x \in DOMAIN streams : TRUE
         IN  streams[s].fees + StreamFees(Restrict(streams, DOMAIN streams \ {s}))

\* C11: in a report, total_fees is the sum of the fees of all stream buckets
\* plus the epr_fee of every fetched transaction that resolves to no fetched
\* ledger entry, and those transactions change no bucket: the streams are the
\* streams of the resolving transactions alone.
C11_NonResolvingFeesInTotalOnly ==
    (last.path = PEprReport /\ last.status = 200) =>
        LET L == Items(ledger, last.req.ledger)
            T == Items(transactions, last.req.transactions)
            U == NonResolving(L, T)
        IN  /\ last.body.total_fees = StreamFees(last.body.streams) + FeesOver(U)
            /\ last.body.streams = Streams(T \ U, LedgerMap(L), <<>>)
            /\ \A s \in DOMAIN last.body.streams :
                   last.body.streams[s].fees = FeesOver(Resolving(L, T, s))

\* a report over a transaction that resolves and one that does not
C11_Witness ==
    /\ last.path = PEprReport
    /\ last.status = 200
    /\ LET L == Items(ledger, last.req.ledger)
           T == Items(transactions, last.req.transactions)
       IN  /\ \E t \in NonResolving(L, T) : t.epr_fee > 0
           /\ T \ NonResolving(L, T) # {}
    /\ last.body.total_fees > StreamFees(last.body.streams)
    /\ StreamFees(last.body.streams) > 0

(***************************************************************************)
(* Dashboard runs: the seeded admin (token 1) and the seeded operator      *)
(* (token 2) are logged in; the operator's record is rewritten through     *)
(* /config/users, records are created, dashboards and reports are read.    *)
(***************************************************************************)
\* ids minted in a dashboard run
MaxDashRecords == 2

\* role values a config update carries: the four roles, a name that is no
\* key of the dashboard's data object, and a name every object inherits
StoredRoles == Roles \cup {"guest", "constructor"}

DashHeaders == {Bearer(1), Bearer(2)}

DashUpdates ==
    {<<[id |-> "u2", role |-> r, active |-> a]>> : r \in StoredRoles, a \in BOOLEAN}

InitDash ==
    /\ users = SeedUsers
    /\ sessions = Create(Create(<<>>, [id |-> 1, userId |-> "u1", createdAt |-> 1]),
                         [id |-> 2, userId |-> "u2", createdAt |-> 2])
    /\ nextTok = 2
    /\ suppliers = <<>>
    /\ ledger = <<>>
    /\ transactions = <<>>
    /\ nextId = 0
    /\ seedings = 1
    /\ last = Resp("POST", PAuthLogin, NoHeader, [username |-> "op", password |-> "pwO"],
                   200, [user |-> SafeUser(SeedUsers["u2"]), token |-> 2])
    /\ mat = <<>>
    /\ stream = ""
    /\ inflight = NoReport
    /\ client = InitialAuthState

NextDash ==
    \/ \E hdr \in DashHeaders, up \in DashUpdates : ConfigUsersPost(hdr, up)
    \/ \E hdr \in DashHeaders : Dashboard(hdr)
    \/ \E hdr \in DashHeaders : EprReport(hdr)
    \/ \E hdr \in DashHeaders :
          SuppliersPost(hdr, [name |-> "Acme", is_weee_compliant |-> TRUE], MaxDashRecords)
    \/ \E hdr \in DashHeaders :
          LedgerPost(hdr, [material_type |-> CopperWire, weight_kg |-> 125], MaxDashRecords)
    \/ \E hdr \in DashHeaders :
          TransactionsPost(hdr, [ledger_entry_id |-> "1", amount |-> 200, epr_fee |-> 40],
                           MaxDashRecords)

SpecDash == InitDash /\ [][NextDash]_vars

(***************************************************************************)
(* The dashboard.                                                          *)
(***************************************************************************)
IsDashboard(r) == r.method = "GET" /\ r.path = PDashboard

IsReport(r) == r.method = "GET" /\ r.path = PEprReport

\* the value of a ratio that is 0
Zero == [num |-> 0, den |-> 1]

\* field f of summary sm, when the projection carries it, has value v
FieldIs(sm, f, v) == f \in DOMAIN sm => sm[f] = v

\* C12: the dashboard and the report answer on empty pages: a caller the
\* gates admit is answered 200; with no supplier fetched weeePct and
\* compliance_pct are 0, with no ledger entry or transaction fetched the sums
\* are 0, the recent lists are empty and streams is the empty mapping.
C12_EmptyCollectionsAnswered ==
    [][/\ (IsDashboard(last') /\ HoldsSession(last') /\ Caller(last').active)
            => last'.status = 200
       /\ (IsReport(last') /\ HoldsSession(last') /\ Caller(last').active
              /\ Caller(last').role \in {"admin", "auditor"})
            => last'.status = 200
       /\ (IsDashboard(last') /\ last'.status = 200)
            => LET sm == last'.body.summary IN
               /\ "weeePct" \in DOMAIN sm => sm.weeePct.den # 0
               /\ last'.req.suppliers = {}
                    => FieldIs(sm, "weeePct", Zero) /\ FieldIs(sm, "recentSuppliers", <<>>)
               /\ last'.req.ledger = {}
                    => FieldIs(sm, "totalWeight", 0) /\ FieldIs(sm, "recentLedger", <<>>)
               /\ last'.req.transactions = {}
                    => /\ FieldIs(sm, "totalValue", 0)
                       /\ FieldIs(sm, "totalEPR", 0)
                       /\ FieldIs(sm, "recentTransactions", <<>>)
       /\ (IsReport(last') /\ last'.status = 200)
            => /\ last'.body.compliance_pct.den # 0
               /\ last'.req.suppliers = {} => last'.body.compliance_pct = Zero
               /\ last'.req.transactions = {}
                    => last'.body.total_fees = 0 /\ last'.body.streams = <<>>
               /\ last'.req.ledger = {} => last'.body.streams = <<>>]_vars

\* an auditor's dashboard over three empty pages: weeePct 0, sums 0, empty lists
C12_Witness ==
    /\ IsDashboard(last)
    /\ last.status = 200
    /\ last.req.suppliers = {} /\ last.req.ledger = {} /\ last.req.transactions = {}
    /\ last.body.summary =
          [totalWeight |-> 0, totalEPR |-> 0, weeePct |-> Zero,
           recentLedger |-> <<>>, recentTransactions |-> <<>>]


\* the fields of the operator, manager and auditor projections
OtherProjectionFields ==
    {"totalWeight", "totalValue", "totalEPR", "weeePct",
     "recentSuppliers", "recentLedger", "recentTransactions"}

\* C13: the dashboard summary an admin receives carries every aggregate and
\* recent list of the operator, manager and auditor projections, and the
\* user count.
C13_AdminSummaryHasEverything ==
    [][(IsDashboard(last') /\ last'.status = 200 /\ Caller(last').role = "admin")
       => OtherProjectionFields \cup {"userCount"} \subseteq DOMAIN last'.body.summary]_vars

\* the operator projection of a dashboard response
IsOperatorProjection(r) ==
    /\ DOMAIN r.body.summary = {"recentTransactions", "recentLedger"}
    /\ r.body.summary.recentLedger
          \in Recent(Items(ledger, r.req.ledger), "capture_timestamp")
    /\ r.body.summary.recentTransactions
          \in Recent(Items(transactions, r.req.transactions), "transaction_timestamp")

\* C14: the dashboard of an active user whose stored role is none of
\* operator, manager, admin, auditor is answered 200 with exactly the
\* operator projection.
C14_UnknownRoleGetsOperatorProjection ==
    [][(IsDashboard(last') /\ HoldsSession(last') /\ Caller(last').active
           /\ Caller(last').role \notin Roles)
       => (last'.status = 200 /\ IsOperatorProjection(last'))]_vars


\* the fields of the projection of each of the four roles
ProjectionFields(role) ==
    IF role = "operator" THEN {"recentTransactions", "recentLedger"}
    ELSE IF role = "manager"
    THEN {"totalWeight", "totalValue", "totalEPR", "recentSuppliers", "recentLedger"}
    ELSE IF role = "admin"
    THEN {"totalWeight", "totalValue", "totalEPR", "weeePct", "recentSuppliers", "userCount"}
    ELSE {"totalWeight", "totalEPR", "weeePct", "recentLedger", "recentTransactions"}

\* C15: every request is judged against the user record the store holds when
\* the request arrives, whatever the record was when the session was created:
\* a deactivated user's token is answered 401, a role-restricted route answers
\* 403 exactly when the stored role is outside its allow-list and 200
\* otherwise, and the dashboard returns the projection of the stored role.
C15_JudgedAgainstStoredUser ==
    [][(last'.path \in GatedRoutes /\ HoldsSession(last'))
       => LET u == Caller(last')
              allowed == AllowList(last'.method, last'.path)
          IN  /\ ~u.active => last'.status = 401
              /\ (u.active /\ allowed # {})
                   => /\ last'.status = 403 <=> u.role \notin allowed
                      /\ last'.status = 200 <=> u.role \in allowed
              /\ (u.active /\ IsDashboard(last') /\ u.role \in Roles)
                   => /\ last'.status = 200
                      /\ DOMAIN last'.body.summary = ProjectionFields(u.role)]_vars

\* the seeded operator, made a manager since its session was created and not
\* logged in again, received the manager projection
C15_Witness ==
    /\ IsDashboard(last)
    /\ last.hdr = Bearer(2)
    /\ sessions[2].userId = "u2"
    /\ nextTok = 2
    /\ SeedUsers["u2"].role = "operator"
    /\ users["u2"].role = "manager"
    /\ last.status = 200
    /\ DOMAIN last.body.summary = ProjectionFields("manager")

(***************************************************************************)
(* Sync runs: the seeded admin is logged in (token 1); lists of offline    *)
(* records are synced, and any insert of a list may throw.                 *)
(***************************************************************************)
\* records in one synced list
MaxPending == 2

\* ids the offline clients gave their records
PendingIds == {"a", "b"}

\* offline ledger entries: flagged unsynced, flagged synced, and a second
\* version of the first under the same id
PendingEntries ==
    {[id |-> "a", supplier_id |-> "s", material_type |-> CopperWire, weight_kg |-> 125,
      is_synced |-> FALSE],
     [id |-> "b", supplier_id |-> "s", material_type |-> PetBottles, weight_kg |-> 125,
      is_synced |-> TRUE],
     [id |-> "a", supplier_id |-> "s", material_type |-> CopperWire, weight_kg |-> 30,
      is_synced |-> TRUE]}

PendingTransactions ==
    {[id |-> "a", ledger_entry_id |-> "a", amount |-> 200, epr_fee |-> 40,
      is_synced |-> FALSE],
     [id |-> "b", ledger_entry_id |-> "a", amount |-> 200, epr_fee |-> 15,
      is_synced |-> TRUE]}

\* the lists of at most MaxPending records of S
Lists(S) == UNION {[1..n -> S] : n \in 0..MaxPending}

SyncHeaders == {NoHeader, Bearer(1)}

NextSync ==
    \/ \E hdr \in SyncHeaders, pending \in Lists(PendingEntries), k \in 0..MaxPending :
          SyncLedger(hdr, pending, k)
    \/ \E hdr \in SyncHeaders, pending \in Lists(PendingTransactions), k \in 0..MaxPending :
          SyncTransactions(hdr, pending, k)

SpecSync == InitReport /\ [][NextSync]_vars


(***************************************************************************)
(* Bulk sync.                                                              *)
(***************************************************************************)
IsSync(r) == r.method = "POST" /\ r.path \in {PSyncLedger, PSyncTransactions}

\* the synced records the handler got to insert
InsertsMade(r) ==
    IF r.req.failed = 0 THEN Len(r.req.pending) ELSE r.req.failed - 1

\* C16: a bulk sync inserts the records of its list in list order and does not
\* roll back: when the insert of the k-th record throws, records 1..k-1 are
\* stored, each with is_synced = true whatever the list said (for an id the
\* list repeats, the later record), the k-th and later records are not
\* inserted, and every other record is left as it was.
C16_SyncCommitsPrefix ==
    [][(IsSync(last') /\ last'.status # 401)
       => LET P == last'.req.pending
              n == InsertsMade(last')
              onLedger == last'.path = PSyncLedger
              before == IF onLedger THEN ledger ELSE transactions
              after == IF onLedger THEN ledger' ELSE transactions'
              ids == {P[i].id : i \in 1..n}
          IN  /\ last'.status = (IF last'.req.failed = 0 THEN 200 ELSE 500)
              /\ DOMAIN after = DOMAIN before \cup ids
              /\ \A i \in 1..n :
                    /\ after[P[i].id].is_synced
                    /\ (\A j \in (i + 1)..n : P[j].id # P[i].id)
                          => after[P[i].id] = [P[i] EXCEPT !.is_synced = TRUE]
              /\ \A id \in DOMAIN before \ ids : after[id] = before[id]
              /\ onLedger => transactions' = transactions
              /\ ~onLedger => ledger' = ledger]_vars

\* a ledger sync of two records whose second insert threw: the first record,
\* sent as not synced, is stored as synced, the second is not stored
C16_Witness ==
    /\ last.method = "POST"
    /\ last.path = PSyncLedger
    /\ last.status = 500
    /\ Len(last.req.pending) = 2
    /\ last.req.failed = 2
    /\ ~last.req.pending[1].is_synced
    /\ last.req.pending[1].id \in DOMAIN ledger
    /\ ledger[last.req.pending[1].id].is_synced
    /\ last.req.pending[2].id \notin DOMAIN ledger

\* the ids the caller of a sync was told are synced
ReportedIds(r) ==
    IF r.status = 200 THEN {r.body.syncedIds[i] : i \in DOMAIN r.body.syncedIds} ELSE {}

\* C17: the ids a bulk sync reports to its caller as synced are exactly the
\* ids of the records it committed, also when an insert failed mid-list.
C17_ReportedIdsAreCommitted ==
    [][(IsSync(last') /\ last'.status # 401)
       => ReportedIds(last') =
             {last'.req.pending[i].id : i \in 1..InsertsMade(last')}]_vars


(***************************************************************************)
(* Supplier runs: the seeded admin is logged in (token 1); suppliers are   *)
(* created from bodies with and without id and timestamp fields, listed    *)
(* and deleted by ids that are stored and ids that are not.                *)
(***************************************************************************)
\* suppliers created in a supplier run
MaxCreated == 3

\* bodies of POST /api/suppliers: the form's fields, and bodies that carry an
\* id or timestamps of their own
SupplierCreateBodies ==
    {[name |-> "Acme", is_weee_compliant |-> TRUE],
     [is_weee_compliant |-> FALSE],
     [name |-> "Beta", id |-> "x"],
     [name |-> "Gamma", id |-> "1", created_at |-> 0, updated_at |-> 0]}

\* ids of DELETE /api/suppliers/:id: ids the server mints and one it never mints
DeletedIds == {ToString(i) : i \in 1..MaxCreated} \cup {"x"}

NextSuppliers ==
    \/ \E body \in SupplierCreateBodies : SuppliersPost(Bearer(1), body, MaxCreated)
    \/ \E id \in DeletedIds : SuppliersDelete(Bearer(1), id)
    \/ SuppliersGet(Bearer(1))

SpecSuppliers == InitReport /\ [][NextSuppliers]_vars


(***************************************************************************)
(* Suppliers.                                                              *)
(***************************************************************************)
\* a supplier delete by an active admin or manager for an id that is not stored
IsAbsentDelete(r) ==
    /\ r.method = "DELETE"
    /\ IsSupplierPath(r.path)
    /\ HoldsSession(r)
    /\ Caller(r).active
    /\ Caller(r).role \in {"admin", "manager"}
    /\ r.path[4] \notin DOMAIN suppliers

\* C18 as stated: a supplier delete by an admin or manager for an id absent
\* from the collection is answered 404 and leaves the store as it was.
C18_AbsentDeleteNotFound ==
    [][IsAbsentDelete(last') => (last'.status = 404 /\ store' = store)]_vars

\* C18: a supplier delete by an admin or manager for an id absent from the
\* collection is answered 200 with the id and deleted: false, and leaves the
\* store as it was.
C18_AbsentDeleteReportsNotDeleted ==
    [][IsAbsentDelete(last')
       => /\ last'.status = 200
          /\ last'.body = [id |-> last'.path[4], deleted |-> FALSE]
          /\ store' = store]_vars

\* a delete of an id that is not stored, among stored suppliers, was answered
\* deleted: false
C18_Witness ==
    /\ last.method = "DELETE"
    /\ IsSupplierPath(last.path)
    /\ last.status = 200
    /\ last.path[4] \notin DOMAIN suppliers
    /\ DOMAIN suppliers # {}
    /\ ~last.body.deleted

\* C19: every supplier POST /suppliers stores carries the id and the
\* timestamps the server generated for the request, whatever the body holds,
\* and so never takes the id of a supplier already stored.
C19_SupplierIdServerGenerated ==
    [][(last'.method = "POST" /\ last'.path = PSuppliers /\ last'.status = 200)
       => /\ last'.body.id = NewId
          /\ last'.body.created_at = Now
          /\ last'.body.updated_at = Now
          /\ last'.body.id \notin DOMAIN suppliers
          /\ suppliers' = Extend(suppliers, last'.body.id, last'.body)]_vars


(***************************************************************************)
(* The EPR report step by step.  The handler issues its three page reads   *)
(* together (Promise.all) and joins them when all have completed; other    *)
(* requests are served between the reads.  The steps below are the gate,   *)
(* the completion of each read, in any order, and the join with the        *)
(* response.                                                               *)
(***************************************************************************)
ReportReads == {"suppliers", "ledger", "transactions"}

\* the gate of GET /api/epr-report and the start of the three reads
ReportStart(hdr) ==
    LET status == RequireRole({"admin", "auditor"}, AuthMiddleware(PEprReport, hdr)) IN
    /\ ~inflight.started
    /\ IF status # 200
       THEN /\ last' = Resp("GET", PEprReport, hdr, NoReq, status, NoBody)
            /\ UNCHANGED inflight
       ELSE /\ inflight' = [NoReport EXCEPT !.started = TRUE, !.hdr = hdr]
            /\ UNCHANGED last
    /\ UNCHANGED <<users, sessions, nextTok, seedings, suppliers, ledger, transactions,
                   nextId, mat, stream, client>>

\* one of the three list(c.env, null, 1000) reads completes
ReportRead(which) ==
    LET coll == IF which = "suppliers" THEN suppliers
                ELSE IF which = "ledger" THEN ledger ELSE transactions
    IN
    /\ inflight.started
    /\ which \notin inflight.done
    /\ \E page \in ListPages(coll, ReportLimit) :
          inflight' = [inflight EXCEPT ![which] = Items(coll, page),
                                       !.done = @ \cup {which}]
    /\ UNCHANGED <<users, sessions, nextTok, seedings, suppliers, ledger, transactions,
                   nextId, last, mat, stream, client>>

\* the join of the three pages and the response
ReportFinish ==
    /\ inflight.started
    /\ inflight.done = ReportReads
    /\ last' = Resp("GET", PEprReport, inflight.hdr,
                    [suppliers |-> {x.id : x \in inflight.suppliers},
                     ledger |-> {x.id : x \in inflight.ledger},
                     transactions |-> {x.id : x \in inflight.transactions}], 200,
                    Report(inflight.suppliers, inflight.ledger, inflight.transactions))
    /\ inflight' = NoReport
    /\ UNCHANGED <<users, sessions, nextTok, seedings, suppliers, ledger, transactions,
                   nextId, mat, stream, client>>

(***************************************************************************)
(* Concurrent runs: the seeded admin is logged in (token 1); ledger        *)
(* entries and transactions are created while a report is in progress.     *)
(***************************************************************************)
\* records created in a concurrent run
MaxConcurrent == 3

ConcurrentRefIds == {"1", "none"}

NextConcurrent ==
    \/ LedgerPost(Bearer(1), [material_type |-> CopperWire, weight_kg |-> 125],
                  MaxConcurrent)
    \/ \E r \in ConcurrentRefIds :
          TransactionsPost(Bearer(1), [ledger_entry_id |-> r, amount |-> 200, epr_fee |-> 40],
                           MaxConcurrent)
    \/ \E hdr \in {NoHeader, Bearer(1)} : ReportStart(hdr)
    \/ \E which \in ReportReads : ReportRead(which)
    \/ ReportFinish

SpecConcurrent == InitReport /\ [][NextConcurrent]_vars


\* C20: a report whose page reads complete in any order among concurrent
\* creates answers 200 when the reads are done; it is computed from the pages
\* as they were read: total_fees over every transaction read, a bucket for a
\* stream exactly when a transaction read refers to a ledger entry read of
\* that stream, holding the sums over those pairs; a transaction read whose
\* ledger entry was not in the ledger read, stored or not, is in total_fees
\* and in no bucket.
C20_ReportJoinsWhatWasRead ==
    [][(inflight.started /\ ~inflight'.started)
       => LET L == inflight.ledger
              T == inflight.transactions
              streams == last'.body.streams
          IN  /\ inflight.done = ReportReads
              /\ last'.path = PEprReport
              /\ last'.status = 200
              /\ last'.body.total_fees = FeesOver(T)
              /\ DOMAIN streams = {s \in StreamLabels : Resolving(L, T, s) # {}}
              /\ \A s \in DOMAIN streams :
                    /\ streams[s].weight = WeightOver(L, Resolving(L, T, s))
                    /\ streams[s].fees = FeesOver(Resolving(L, T, s))
              /\ last'.body.total_fees = StreamFees(streams) + FeesOver(NonResolving(L, T))]_vars

\* a report answered with a transaction that was read while the ledger entry
\* it refers to, created before it, was not in the ledger read: the fee is in
\* total_fees, no bucket exists
C20_Witness ==
    /\ last.path = PEprReport
    /\ last.status = 200
    /\ \E i \in last.req.transactions :
          LET t == transactions[i] IN
          /\ t.ledger_entry_id \in DOMAIN ledger
          /\ t.ledger_entry_id \notin last.req.ledger
          /\ ledger[t.ledger_entry_id].created_at < t.created_at
    /\ last.body.total_fees > 0
    /\ last.body.streams = <<>>


(***************************************************************************)
(* Session runs: the seeded admin holds session 1 and the seeded operator  *)
(* session 2; both log in again, sessions are used and logged out.         *)
(***************************************************************************)
\* session tokens minted in a session run, the two of the start included
MaxSessions == 3

SessionHeaders == {NoHeader} \cup {Bearer(t) : t \in 0..MaxSessions}

NextSessions ==
    \/ \E u \in Usernames, p \in Passwords : AuthLogin(NoHeader, u, p, MaxSessions)
    \/ \E hdr \in SessionHeaders : AuthLogout(hdr)
    \/ \E hdr \in SessionHeaders : AuthMe(hdr)

SpecSessions == InitDash /\ [][NextSessions]_vars

\* C21: every successful login adds one session of its own and leaves the
\* sessions already stored as they were, so a user can hold several; a
\* successful logout removes the session under the caller's token and no
\* other, an unsuccessful one removes none, and a token whose session is
\* stored (its user active) is accepted by /auth/me.
C21_LogoutDeletesOnlyCallersSession ==
    [][/\ (IsLogin(last') /\ last'.status = 200)
            => /\ last'.body.token \notin DOMAIN sessions
               /\ DOMAIN sessions' = DOMAIN sessions \cup {last'.body.token}
               /\ \A t \in DOMAIN sessions : sessions'[t] = sessions[t]
       /\ (IsLogout(last') /\ last'.status = 200)
            => /\ last'.hdr.token \in DOMAIN sessions
               /\ DOMAIN sessions' = DOMAIN sessions \ {last'.hdr.token}
               /\ \A t \in DOMAIN sessions' : sessions'[t] = sessions[t]
               /\ users' = users
       /\ (IsLogout(last') /\ last'.status # 200) => sessions' = sessions
       /\ (IsMe(last') /\ HoldsSession(last') /\ Caller(last').active)
            => /\ last'.status = 200
               /\ last'.body.id = sessions[last'.hdr.token].userId]_vars

\* the admin logged out of session 1 while its later session 3 and the
\* operator's session 2 are still stored
C21_Witness ==
    /\ IsLogout(last)
    /\ last.status = 200
    /\ last.hdr = Bearer(1)
    /\ DOMAIN sessions = {2, 3}
    /\ sessions[3].userId = "u1"
    /\ sessions[2].userId = "u2"


(***************************************************************************)
(* The client auth store on its own: any sequence of login, logout,        *)
(* setUser and page loads from the state the store is created with.        *)
(***************************************************************************)
NextClient ==
    \/ \E user \in ClientUsers, token \in ClientTokens : login(user, token)
    \/ logout
    \/ \E user \in ClientUsers : setUser(user)
    \/ rehydrate

SpecClient == Init /\ [][NextClient]_vars

\* C22: in the client auth store, after any sequence of login, logout and
\* setUser from the initial state, isAuthenticated is true exactly when
\* user is non-null, a non-null token implies isAuthenticated, and a logout
\* ends with user, token and isAuthenticated cleared and the 'token' entry
\* of localStorage removed.
C22_AuthStoreInvariants ==
    /\ client.isAuthenticated <=> client.user # NullUser
    /\ client.token # NullToken => client.isAuthenticated
    /\ client.op = "logout"
       => /\ client.user = NullUser
          /\ client.token = NullToken
          /\ ~client.isAuthenticated
          /\ client.localToken = NullToken

\* a logout of a store that held a user and a token
C22_Witness ==
    /\ client.op = "logout"
    /\ client.was
    /\ client.user = NullUser
    /\ client.token = NullToken
    /\ client.localToken = NullToken
    /\ client.location = "/login"
=============================================================================
